---------------------------- MODULE Spec2Model ----------------------------
(***************************************************************************)
(* Model of the recurring-purchase detector of src/src/features.py         *)
(* (identify_recurring_purchases) as a state machine: a caller holds a     *)
(* purchase DataFrame df and a configuration cfg, calls the detector, may  *)
(* call it again on the returned frame, and may fan the call out per user. *)
(*                                                                         *)
(* Conventions.  A DataFrame is [columns, rows]: rows is a sequence, the   *)
(* row at position p carries the index label p-1 (merge() at line 131      *)
(* leaves a fresh RangeIndex 0..n-1).  A description is a sequence of      *)
(* ASCII codes.  A timestamp is a number of hours.  Amounts are integers;  *)
(* numpy's mean/std are kept exact as fractions, and the non-finite        *)
(* results of float division (nan, inf) are explicit values.               *)
(***************************************************************************)
EXTENDS Integers, Sequences, FiniteSets, TLC

VARIABLES
    df, cfg, out, again, perKey,    \* the detector's caller
    text, textKey,                  \* a description and its normalised key
    fqIn, fqOut,                    \* calculate_purchase_frequency: call and result
    tfIn, tfOut,                    \* extract_time_features: call and result
    ctIn, ctOut,                    \* categorize_text: call and result
    store, lastCall, resp,          \* the stored purchases, the last request on them and its response
    csvIn, csvOut                   \* import_from_csv: call and result

detectorVars == <<df, cfg, out, again, perKey>>
normVars     == <<text, textKey>>
fqVars       == <<fqIn, fqOut>>
tfVars       == <<tfIn, tfOut>>
ctVars       == <<ctIn, ctOut>>
storeVars    == <<store, lastCall, resp>>
csvVars      == <<csvIn, csvOut>>

vars == <<detectorVars, normVars, fqVars, tfVars, ctVars, storeVars, csvVars>>

-----------------------------------------------------------------------------
(* Bounds and program constants *)

\* longest input frame explored
MaxLen == 3

\* max_amount_variance: float = 0.1, kept as the fraction Num/Den
MaxAmountVarianceNum == 1
MaxAmountVarianceDen == 10
\* max_days_variance: int = 5
MaxDaysVariance == 5
\* hours in one day (Timedelta.days is the floor of hours / 24)
HoursPerDay == 24

\* values of min_occurrences explored (the default is 3)
MinOccurrencesSet == {1, 2, 3}

AllColumns == {"id", "user_id", "description", "amount", "date", "is_recurring"}

\* the columns a caller's frame may lack (at most one at a time)
DroppableColumns == {"description", "amount", "date", "user_id"}

\* user_id_column: Optional[str] = 'user_id'; "None" stands for None
UserIdColumnSet == {"user_id", "None"}

-----------------------------------------------------------------------------
(* The purchases a frame is drawn from.  Descriptions in ASCII:            *)
(*   "NETFLIX 123" "Netflix" "netflix!" "netflix" "Rent" "rent 2"          *)

D_NETFLIX_123 == <<78, 69, 84, 70, 76, 73, 88, 32, 49, 50, 51>>
D_Netflix   == <<78, 101, 116, 102, 108, 105, 120>>
D_netflixX  == <<110, 101, 116, 102, 108, 105, 120, 33>>
D_netflix   == <<110, 101, 116, 102, 108, 105, 120>>
D_Rent      == <<82, 101, 110, 116>>
D_rent_2    == <<114, 101, 110, 116, 32, 50>>

Purchase(i, u, d, a, t, r) ==
    [id |-> i, user_id |-> u, description |-> d, amount |-> a,
     date |-> t * HoursPerDay, is_recurring |-> r]

Pool ==
    << Purchase(1, 1, D_NETFLIX_123, 9, 0, FALSE),
       Purchase(2, 1, D_Netflix,    9, 30, TRUE),
       Purchase(3, 1, D_netflixX,   9, 60, FALSE),
       Purchase(4, 1, D_netflix,   45, 60, FALSE),
       Purchase(5, 1, D_netflix,   11, 70, FALSE),
       Purchase(6, 2, D_Netflix,   11,  0, FALSE),
       Purchase(7, 2, D_netflix,  -11, 30, TRUE),
       Purchase(8, 1, D_Rent,       0,  0, FALSE),
       Purchase(9, 1, D_rent_2,     0, 30, FALSE) >>

PoolIds == 1..Len(Pool)

Users == {Pool[i].user_id : i \in PoolIds}

\* sequences of distinct purchases, 1..MaxLen long
IdSeqs ==
    {s \in UNION {[1..n -> PoolIds] : n \in 1..MaxLen} :
        \A i, j \in DOMAIN s : i # j => s[i] # s[j]}

Frame(cols, ids) == [columns |-> cols, rows |-> [p \in DOMAIN ids |-> Pool[ids[p]]]]

Frames ==
    {Frame(AllColumns, ids) : ids \in IdSeqs}
    \cup {Frame(AllColumns \ {c}, ids) : c \in DroppableColumns, ids \in IdSeqs}

Configs == [min_occurrences : MinOccurrencesSet, user_id_column : UserIdColumnSet]

-----------------------------------------------------------------------------
(* Text normalisation: features.py lines 111-116 *)

\* str.isspace / regex \s on ASCII: \t \n \v \f \r, FS GS RS US, space
IsSpace(c) == c \in (9..13) \cup (28..31) \cup {32}

\* variant: no lowercasing before the replace
LowerChar_Identity(c) == c

\* .str.lower(): A-Z become a-z
LowerChar(c) == IF c \in 65..90 THEN c + 32 ELSE c

StrLower(s) == [i \in DOMAIN s |-> LowerChar(s[i])]

\* variant: the character class also keeps the digits, [^a-z0-9\s]
KeptChar_Digits(c) == c \in 97..122 \/ c \in 48..57 \/ IsSpace(c)

\* the characters .str.replace(r'[^a-z\s]', '', regex=True) keeps
KeptChar(c) == c \in 97..122 \/ IsSpace(c)

StrReplace(s) == SelectSeq(s, KeptChar)

RECURSIVE LStrip(_)
LStrip(s) == IF s # <<>> /\ IsSpace(Head(s)) THEN LStrip(Tail(s)) ELSE s

RECURSIVE RStrip(_)
RStrip(s) ==
    IF s # <<>> /\ IsSpace(s[Len(s)]) THEN RStrip(SubSeq(s, 1, Len(s) - 1)) ELSE s

\* .str.strip()
StrStrip(s) == RStrip(LStrip(s))

\* result['simple_desc']
SimpleDesc(description) == StrStrip(StrReplace(StrLower(description)))

-----------------------------------------------------------------------------
(* numpy statistics, exact *)

RECURSIVE SeqSum(_)
SeqSum(s) == IF s = <<>> THEN 0 ELSE Head(s) + SeqSum(Tail(s))

SeqSumSq(s) == SeqSum([i \in DOMAIN s |-> s[i] * s[i]])

\* Len(s)^2 times the population variance of s (np.std squared), an integer
ScaledVariance(s) == Len(s) * SeqSumSq(s) - SeqSum(s) * SeqSum(s)

Sign(x) == IF x > 0 THEN 1 ELSE IF x < 0 THEN -1 ELSE 0

\* variant: a zero mean is guarded by taking the coefficient to be 0
NpStdOverMean_ZeroGuard(a) ==
    IF SeqSum(a) = 0
    THEN [kind |-> "finite", sign |-> 1, sq_num |-> 0, sq_den |-> 1]
    ELSE [kind |-> "finite", sign |-> Sign(SeqSum(a)), sq_num |-> ScaledVariance(a),
          sq_den |-> SeqSum(a) * SeqSum(a)]

\* np.std(a) / np.mean(a) as float64 division gives it: nan for 0/0, inf for
\* x/0 with x > 0, else the signed root of sq_num / sq_den
NpStdOverMean(a) ==
    LET s == SeqSum(a)
        v == ScaledVariance(a)
    IN  IF s = 0
        THEN (IF v = 0 THEN [kind |-> "nan",    sign |-> 0, sq_num |-> 0, sq_den |-> 1]
                       ELSE [kind |-> "inf",    sign |-> 1, sq_num |-> 0, sq_den |-> 1])
        ELSE [kind |-> "finite", sign |-> Sign(s), sq_num |-> v, sq_den |-> s * s]

\* the literal 0 both variances fall back to
Zero == [kind |-> "finite", sign |-> 1, sq_num |-> 0, sq_den |-> 1]

\* line 153: amount_variance
AmountVariance(amount_values) ==
    IF Len(amount_values) > 1 THEN NpStdOverMean(amount_values) ELSE Zero

\* np.std(days_between), a finite non-negative number
NpStd(xs) ==
    [kind |-> "finite", sign |-> 1, sq_num |-> ScaledVariance(xs),
     sq_den |-> Len(xs) * Len(xs)]

\* line 159: days_variance
DaysVariance(days_between) ==
    IF Len(days_between) > 1 THEN NpStd(days_between) ELSE Zero

\* x <= num/den for a float x as above (den > 0); any comparison with nan is False
Leq(x, num, den) ==
    CASE x.kind = "nan" -> FALSE
      [] x.kind = "inf" -> FALSE
      [] OTHER ->
            IF x.sign >= 0
            THEN num >= 0 /\ den * den * x.sq_num <= num * num * x.sq_den
            ELSE num >= 0 \/ den * den * x.sq_num >= num * num * x.sq_den

\* Timedelta.days: whole days, rounded towards minus infinity
Days(hours) == hours \div HoursPerDay

-----------------------------------------------------------------------------
(* identify_recurring_purchases: features.py lines 82-171 *)

\* lines 111-116: every row gains the column simple_desc
AddSimpleDesc(rows) ==
    [p \in DOMAIN rows |->
        [id |-> rows[p].id, user_id |-> rows[p].user_id,
         description |-> rows[p].description, amount |-> rows[p].amount,
         date |-> rows[p].date, is_recurring |-> rows[p].is_recurring,
         simple_desc |-> SimpleDesc(rows[p].description)]]

\* variant: the user is never a grouping column
GroupCols_Global(columns, user_id_column) == <<"simple_desc">>

\* lines 119-122
GroupCols(columns, user_id_column) ==
    IF user_id_column # "None" /\ user_id_column \in columns
    THEN <<"user_id", "simple_desc">>
    ELSE <<"simple_desc">>

\* the value of one grouping column in a row
ColValue(row, col) == IF col = "user_id" THEN row.user_id ELSE row.simple_desc

\* the row's values in the grouping columns
RowKey(row, group_cols) == [c \in DOMAIN group_cols |-> ColValue(row, group_cols[c])]

\* order of two strings as Python compares them
RECURSIVE StrLess(_, _)
StrLess(a, b) ==
    IF b = <<>> THEN FALSE
    ELSE IF a = <<>> THEN TRUE
    ELSE IF Head(a) # Head(b) THEN Head(a) < Head(b)
    ELSE StrLess(Tail(a), Tail(b))

\* order in which groupby() lists the keys: column by column, ascending
KeyLess(a, b, group_cols) ==
    IF Len(group_cols) = 2
    THEN a[1] < b[1] \/ (a[1] = b[1] /\ StrLess(a[2], b[2]))
    ELSE StrLess(a[1], b[1])

RECURSIVE SortKeys(_, _)
SortKeys(keys, group_cols) ==
    IF keys = {} THEN <<>>
    ELSE LET least == CHOOSE k \in keys :
                        \A o \in keys \ {k} : KeyLess(k, o, group_cols)
         IN  <<least>> \o SortKeys(keys \ {least}, group_cols)

\* line 125: result.groupby(group_cols).size().reset_index(name='occurrences')
DescCounts(rows, group_cols) ==
    LET keys   == {RowKey(rows[p], group_cols) : p \in DOMAIN rows}
        sorted == SortKeys(keys, group_cols)
    IN  [g \in DOMAIN sorted |->
            [key |-> sorted[g],
             occurrences |->
                Cardinality({p \in DOMAIN rows : RowKey(rows[p], group_cols) = sorted[g]})]]

\* variant: the floor is off by one
Survives_OffByOne(occurrences, min_occurrences) == occurrences >= min_occurrences - 1

\* line 128: desc_counts[desc_counts['occurrences'] >= min_occurrences]
Survives(occurrences, min_occurrences) == occurrences >= min_occurrences

\* variant: the empty description is never a candidate
RecurringDesc_SkipEmpty(desc_counts, min_occurrences) ==
    SelectSeq(desc_counts, LAMBDA d : /\ Survives(d.occurrences, min_occurrences)
                                      /\ d.key[Len(d.key)] # <<>>)

RecurringDesc(desc_counts, min_occurrences) ==
    SelectSeq(desc_counts, LAMBDA d : Survives(d.occurrences, min_occurrences))

\* variant: a flag column already in the input is left as it is
InitialFlag_Keep(row) == row.is_recurring

\* line 138: result['is_recurring'] = False
InitialFlag(row) == FALSE

\* variant: an inner merge, which keeps only the rows of a surviving group
Merge_Inner(rows, recurring_desc, group_cols) ==
    LET kept == SelectSeq(rows, LAMBDA r : \E g \in DOMAIN recurring_desc :
                                              recurring_desc[g].key = RowKey(r, group_cols))
    IN  [p \in DOMAIN kept |->
            [id |-> kept[p].id, user_id |-> kept[p].user_id,
             description |-> kept[p].description, amount |-> kept[p].amount,
             date |-> kept[p].date, is_recurring |-> FALSE,
             simple_desc |-> kept[p].simple_desc, occurrences |-> 1]]

\* lines 131-138: the left merge keeps every row in place, adds the column
\* occurrences (0 stands for the NaN of a row with no surviving group) and
\* leaves the index 0..n-1; then the flag column is initialised
Merge(rows, recurring_desc, group_cols) ==
    [p \in DOMAIN rows |->
        LET hit == {g \in DOMAIN recurring_desc :
                        recurring_desc[g].key = RowKey(rows[p], group_cols)}
        IN  [id |-> rows[p].id, user_id |-> rows[p].user_id,
             description |-> rows[p].description, amount |-> rows[p].amount,
             date |-> rows[p].date, is_recurring |-> InitialFlag(rows[p]),
             simple_desc |-> rows[p].simple_desc,
             occurrences |-> IF hit = {} THEN 0
                             ELSE recurring_desc[CHOOSE g \in hit : TRUE].occurrences]]

\* variant: .any(axis=1) in place of .all(axis=1)
RowMatches_Any(row, group_cols, key) ==
    \E c \in DOMAIN group_cols : ColValue(row, group_cols[c]) = key[c]

\* line 148: (result[cols] == pd.Series(filter_cols)).all(axis=1)
RowMatches(row, group_cols, key) ==
    \A c \in DOMAIN group_cols : ColValue(row, group_cols[c]) = key[c]

\* positions of the rows line 147 selects, in frame order
Selected(rows, group_cols, key) ==
    SelectSeq([p \in DOMAIN rows |-> p],
              LAMBDA p : RowMatches(rows[p], group_cols, key))

\* .sort_values(by=date_column) on a sequence of positions (ties keep their order)
RECURSIVE SortByDate(_, _)
SortByDate(rows, idx) ==
    IF idx = <<>> THEN <<>>
    ELSE LET first == CHOOSE i \in DOMAIN idx :
                        /\ \A j \in DOMAIN idx : rows[idx[i]].date <= rows[idx[j]].date
                        /\ \A j \in 1..(i - 1) : rows[idx[j]].date # rows[idx[i]].date
         IN  <<idx[first]>> \o
             SortByDate(rows, SubSeq(idx, 1, first - 1) \o SubSeq(idx, first + 1, Len(idx)))

Range(s) == {s[i] : i \in DOMAIN s}

\* lines 156-158: dates is indexed by the rows' labels (position - 1), and
\* dates[i] looks the LABEL i up; a label that is not in the group is a KeyError
LabelsFound(idx) == \A label \in 0..(Len(idx) - 1) : (label + 1) \in Range(idx)

DaysBetween(rows, idx) ==
    [i \in 1..(Len(idx) - 1) |-> Days(rows[i + 1].date - rows[i].date)]

\* lines 164: both tests
MeetsCriteria(amount_variance, days_variance) ==
    /\ Leq(amount_variance, MaxAmountVarianceNum, MaxAmountVarianceDen)
    /\ Leq(days_variance, MaxDaysVariance, 1)

\* lines 147-164 for one row of recurring_desc: the selected rows, the two
\* variances and the verdict, or the exception raised on the way
EvaluateGroup(columns, rows, group_cols, key) ==
    LET sel == Selected(rows, group_cols, key)
        failed == [error |-> "KeyError", key |-> key, idx |-> <<>>,
                   amount_variance |-> Zero, days_variance |-> Zero, passes |-> FALSE]
    IN  IF "date" \notin columns THEN failed
        ELSE IF "amount" \notin columns THEN failed
        ELSE LET idx == SortByDate(rows, sel)
                 amount_values == [i \in DOMAIN idx |-> rows[idx[i]].amount]
                 av == AmountVariance(amount_values)
             IN  IF Len(idx) > 1 /\ ~LabelsFound(idx) THEN failed
                 ELSE LET dv == IF Len(idx) > 1
                                THEN DaysVariance(DaysBetween(rows, idx))
                                ELSE Zero
                      IN  [error |-> "", key |-> key, idx |-> idx,
                           amount_variance |-> av, days_variance |-> dv,
                           passes |-> MeetsCriteria(av, dv)]

\* variant: the last selected row is left out of the update
MarkedRows_AllButLast(idx) == {idx[i] : i \in 1..(Len(idx) - 1)}

\* lines 165-166: result.loc[idx, 'is_recurring'] = True
MarkedRows(idx) == Range(idx)

SetRecurring(rows, idx) ==
    [p \in DOMAIN rows |->
        IF p \in MarkedRows(idx) THEN [rows[p] EXCEPT !.is_recurring = TRUE] ELSE rows[p]]

\* lines 141-166: the loop over recurring_desc, from its g-th row on
RECURSIVE Loop(_, _, _, _, _, _)
Loop(columns, rows, group_cols, recurring_desc, g, groups) ==
    IF g > Len(recurring_desc)
    THEN [error |-> "", rows |-> rows, groups |-> groups]
    ELSE LET ev == EvaluateGroup(columns, rows, group_cols, recurring_desc[g].key)
         IN  IF ev.error # ""
             THEN [error |-> ev.error, rows |-> <<>>, groups |-> groups]
             ELSE Loop(columns,
                       IF ev.passes THEN SetRecurring(rows, ev.idx) ELSE rows,
                       group_cols, recurring_desc, g + 1, Append(groups, ev))

\* variant: the frame is returned sorted by date
DropTemp_Sorted(rows) ==
    LET order == SortByDate(rows, [p \in DOMAIN rows |-> p])
    IN  [p \in DOMAIN rows |->
            [id |-> rows[order[p]].id, user_id |-> rows[order[p]].user_id,
             description |-> rows[order[p]].description, amount |-> rows[order[p]].amount,
             date |-> rows[order[p]].date, is_recurring |-> rows[order[p]].is_recurring]]

\* line 169: result.drop(columns=['simple_desc', 'occurrences'])
DropTemp(rows) ==
    [p \in DOMAIN rows |->
        [id |-> rows[p].id, user_id |-> rows[p].user_id,
         description |-> rows[p].description, amount |-> rows[p].amount,
         date |-> rows[p].date, is_recurring |-> rows[p].is_recurring]]

Raised(error) ==
    [status |-> "raised", error |-> error, columns |-> {}, rows |-> <<>>, groups |-> <<>>]

NotCalled ==
    [status |-> "not called", error |-> "", columns |-> {}, rows |-> <<>>, groups |-> <<>>]

\* the call identify_recurring_purchases(frame, user_id_column=..., min_occurrences=...)
IdentifyRecurringPurchases(frame, user_id_column, min_occurrences) ==
    IF "description" \notin frame.columns THEN Raised("KeyError")
    ELSE LET result         == AddSimpleDesc(frame.rows)
             columns        == frame.columns \cup {"simple_desc"}
             group_cols     == GroupCols(columns, user_id_column)
             desc_counts    == DescCounts(result, group_cols)
             recurring_desc == RecurringDesc(desc_counts, min_occurrences)
             merged         == Merge(result, recurring_desc, group_cols)
             looped         == Loop(columns, merged, group_cols, recurring_desc, 1, <<>>)
         IN  IF looped.error # "" THEN Raised(looped.error)
             ELSE [status  |-> "returned", error |-> "",
                   columns |-> frame.columns \cup {"is_recurring"},
                   rows    |-> DropTemp(looped.rows),
                   groups  |-> looped.groups]

-----------------------------------------------------------------------------
(* The caller *)

\* the frame a call returned, as the input of a further call
AsFrame(result) == [columns |-> result.columns, rows |-> result.rows]

\* variant: the function works on the caller's frame itself, which then
\* carries what a successful call added
InputAfter_Alias(frame, result) ==
    IF result.status = "returned" THEN AsFrame(result) ELSE frame

\* result = df.copy() (features.py lines 23, 59, 108, 190): every later
\* assignment goes to the copy, the caller's frame is what it was
InputAfter(frame, result) == frame

\* df[df['user_id'] == u]: one user's rows, in frame order
RowsOfUser(frame, u) ==
    [columns |-> frame.columns,
     rows    |-> SelectSeq(frame.rows, LAMBDA r : r.user_id = u)]

UsersIn(frame) == {frame.rows[p].user_id : p \in DOMAIN frame.rows}

Detect(frame) == IdentifyRecurringPurchases(frame, cfg.user_id_column, cfg.min_occurrences)

\* the other components at rest: each specification below runs one component
\* and leaves the variables of the others at these values
NoFrame == [columns |-> {}, rows |-> <<>>]

NotNormalised == [status |-> "not called", key |-> <<>>]

NormIdle == text = <<>> /\ textKey = NotNormalised

FqIdle == fqIn = [frame |-> NoFrame, user_id_column |-> "user_id"] /\ fqOut = NotCalled

TfIdle == tfIn = [frame |-> NoFrame, date_column |-> "date"] /\ tfOut = NotCalled

CtIdle ==
    /\ ctIn = [frame |-> NoFrame, text_column |-> "description", keywords_dict |-> <<>>]
    /\ ctOut = NotCalled

\* no purchase stored, no request made
NoCall == [op |-> "none"]

NoResponse == [status_code |-> 0, detail |-> "", body |-> <<>>]

StoreIdle == store = <<>> /\ lastCall = NoCall /\ resp = NoResponse

CsvIdle ==
    /\ csvIn = [file |-> [header |-> FALSE, rows |-> <<>>],
                mapping |-> [amount_in_file |-> TRUE, payment_method_mapped |-> FALSE]]
    /\ csvOut = NotCalled

DetectorIdle ==
    /\ df = NoFrame
    /\ cfg = [min_occurrences |-> 3, user_id_column |-> "user_id"]
    /\ out = NotCalled
    /\ again = NotCalled
    /\ perKey = <<>>

Init ==
    /\ df \in Frames
    /\ cfg \in Configs
    /\ out = NotCalled
    /\ again = NotCalled
    /\ perKey = <<>>
    /\ NormIdle /\ FqIdle /\ TfIdle /\ CtIdle /\ StoreIdle /\ CsvIdle

\* one call on the whole frame
Call ==
    /\ out.status = "not called"
    /\ out' = Detect(df)
    /\ df' = InputAfter(df, out')
    /\ UNCHANGED <<cfg, again, perKey, normVars, fqVars, tfVars, ctVars, storeVars, csvVars>>

\* a second call, on the frame the first one returned
CallAgain ==
    /\ out.status = "returned"
    /\ again.status = "not called"
    /\ again' = Detect(AsFrame(out))
    /\ UNCHANGED <<df, cfg, out, perKey, normVars, fqVars, tfVars, ctVars, storeVars, csvVars>>

\* the fan-out: one call per user, each on that user's rows only
CallPerKey ==
    /\ "user_id" \in df.columns
    /\ cfg.user_id_column = "user_id"
    /\ perKey = <<>>
    /\ perKey' = [u \in UsersIn(df) |-> Detect(RowsOfUser(df, u))]
    /\ UNCHANGED <<df, cfg, out, again, normVars, fqVars, tfVars, ctVars, storeVars, csvVars>>

Next == Call \/ CallAgain \/ CallPerKey

Spec == Init /\ [][Next]_vars

-----------------------------------------------------------------------------
(* The detector on purchases whose description has no letter in it *)

\* "", "   ", "123-456!", "42", "Rent"
D_Empty == <<>>

D_Spaces == <<32, 32, 32>>

D_Number == <<49, 50, 51, 45, 52, 53, 54, 33>>

D_FortyTwo == <<52, 50>>

BlankPool ==
    << Purchase(1, 1, D_Empty,    5,  0, FALSE),
       Purchase(2, 1, D_Spaces,   5, 30, FALSE),
       Purchase(3, 1, D_Number,   5, 60, TRUE),
       Purchase(4, 1, D_FortyTwo, 50, 90, FALSE),
       Purchase(5, 2, D_Empty,    5, 30, FALSE),
       Purchase(6, 1, D_Rent,     5, 90, FALSE) >>

BlankIdSeqs ==
    {s \in UNION {[1..n -> DOMAIN BlankPool] : n \in 1..MaxLen} :
        \A i, j \in DOMAIN s : i # j => s[i] # s[j]}

BlankFrames ==
    {[columns |-> AllColumns \ drop, rows |-> [p \in DOMAIN ids |-> BlankPool[ids[p]]]] :
        drop \in {{}, {"user_id"}}, ids \in BlankIdSeqs}

InitBlank ==
    /\ df \in BlankFrames
    /\ cfg \in Configs
    /\ out = NotCalled
    /\ again = NotCalled
    /\ perKey = <<>>
    /\ NormIdle /\ FqIdle /\ TfIdle /\ CtIdle /\ StoreIdle /\ CsvIdle

SpecBlank == InitBlank /\ [][Next]_vars

-----------------------------------------------------------------------------
(* The text normaliser on its own: lines 111-116 applied to one description *)

\* longest description explored, besides the named ones
MaxTextLen == 3

\* tab, space, '#', '4', '@', 'A', 'Z', '[', '`', 'a', 'z', '{'
NormAlphabet == {9, 32, 35, 52, 64, 65, 90, 91, 96, 97, 122, 123}

\* "Coffee Shop #42"
D_Coffee_Shop_42 == <<67, 111, 102, 102, 101, 101, 32, 83, 104, 111, 112, 32, 35, 52, 50>>

\* "coffee shop"
D_coffee_shop == <<99, 111, 102, 102, 101, 101, 32, 115, 104, 111, 112>>

Texts ==
    UNION {[1..n -> NormAlphabet] : n \in 0..MaxTextLen}
    \cup {D_Coffee_Shop_42} \cup {Pool[i].description : i \in PoolIds}

InitNorm ==
    /\ text \in Texts
    /\ textKey = NotNormalised
    /\ DetectorIdle /\ FqIdle /\ TfIdle /\ CtIdle /\ StoreIdle /\ CsvIdle

\* result['simple_desc'] for one description
Normalise ==
    /\ textKey.status = "not called"
    /\ textKey' = [status |-> "returned", key |-> SimpleDesc(text)]
    /\ UNCHANGED <<text, detectorVars, fqVars, tfVars, ctVars, storeVars, csvVars>>

NextNorm == Normalise

SpecNorm == InitNorm /\ [][NextNorm]_vars

-----------------------------------------------------------------------------
(* calculate_purchase_frequency: features.py lines 42-79 *)

\* longest frame given to calculate_purchase_frequency
MaxFqLen == 3

\* .dt.total_seconds(): seconds in one hour of a timestamp difference
SecondsPerHour == 3600

\* line 74: / (24 * 3600)
SecondsPerDay == 24 * 3600

\* the rows frames are drawn from: user and timestamp in hours; rows 2, 3 and
\* 5 carry the same timestamp
FqRow(i, u, t) == [id |-> i, user_id |-> u, date |-> t]

FqPool ==
    << FqRow(1, 1, 0), FqRow(2, 1, 36), FqRow(3, 1, 36),
       FqRow(4, 2, 12), FqRow(5, 2, 36), FqRow(6, 1, 60) >>

FqColumns == {"id", "user_id", "date"}

FqIdSeqs ==
    {s \in UNION {[1..n -> DOMAIN FqPool] : n \in 1..MaxFqLen} :
        \A i, j \in DOMAIN s : i # j => s[i] # s[j]}

FqFrames ==
    {[columns |-> FqColumns \ drop, rows |-> [p \in DOMAIN ids |-> FqPool[ids[p]]]] :
        drop \in {{}, {"user_id"}, {"date"}}, ids \in FqIdSeqs}

\* a float as an exact fraction
Frac(n, d) == [num |-> n, den |-> d]

NaN == [na |-> TRUE, value |-> Frac(0, 1)]

Float(n, d) == [na |-> FALSE, value |-> Frac(n, d)]

\* a timestamp, or NaT
NaT == [na |-> TRUE, value |-> 0]

Timestamp(t) == [na |-> FALSE, value |-> t]

\* line 59: the copy; each row keeps its index label (position - 1) through the sort
Labelled(rows) ==
    [p \in DOMAIN rows |->
        [index |-> p - 1, id |-> rows[p].id, user_id |-> rows[p].user_id,
         date |-> rows[p].date]]

Arrangements(n) == {f \in [1..n -> 1..n] : \A i, j \in 1..n : i # j => f[i] # f[j]}

\* line 62: sort_values(by=date_column) sorts with kind='quicksort', which
\* is not a stable sort: every ascending arrangement is a possible result
SortValues(rows) ==
    {[p \in DOMAIN rows |-> rows[f[p]]] : f \in
        {g \in Arrangements(Len(rows)) :
            \A i, j \in DOMAIN rows : i < j => rows[g[i]].date <= rows[g[j]].date}}

\* variant: consecutive rows are compared whatever their user
SameFqGroup_Global(r1, r2, by_user) == TRUE

\* rows shift(1) treats as one group: lines 64-69
SameFqGroup(r1, r2, by_user) == by_user => r1.user_id = r2.user_id

\* lines 64-69: the date of the previous row of the group, NaT for its first row
PrevPurchaseDate(sorted, p, by_user) ==
    LET before == {q \in 1..(p - 1) : SameFqGroup(sorted[q], sorted[p], by_user)}
    IN  IF before = {} THEN NaT
        ELSE Timestamp(sorted[CHOOSE q \in before : \A o \in before : o <= q].date)

\* lines 72-74: (date - prev).dt.total_seconds() / (24 * 3600), NaN when prev is NaT
DaysSince(date, prev) ==
    IF prev.na THEN NaN
    ELSE Float((date - prev.value) * SecondsPerHour, SecondsPerDay)

\* variant: the missing gap is filled with 0
FillNa_Zero(x) == IF x.na THEN Float(0, 1) ELSE x

\* line 77: .fillna(-1)
FillNa(x) == IF x.na THEN Float(-1, 1) ELSE x

\* the call, for the arrangement `sorted` the sort produced
CalculatePurchaseFrequency(frame, user_id_column, sorted) ==
    LET by_user == user_id_column # "None" /\ user_id_column \in frame.columns
    IN  [status  |-> "returned", error |-> "",
         columns |-> frame.columns \cup {"prev_purchase_date", "days_since_last_purchase"},
         groups  |-> <<>>,
         rows    |->
            [p \in DOMAIN sorted |->
                LET prev == PrevPurchaseDate(sorted, p, by_user)
                IN  [index |-> sorted[p].index, id |-> sorted[p].id,
                     user_id |-> sorted[p].user_id, date |-> sorted[p].date,
                     prev_purchase_date |-> prev,
                     days_since_last_purchase |-> FillNa(DaysSince(sorted[p].date, prev))]]]

InitFq ==
    /\ fqIn \in [frame : FqFrames, user_id_column : UserIdColumnSet]
    /\ fqOut = NotCalled
    /\ DetectorIdle /\ NormIdle /\ TfIdle /\ CtIdle /\ StoreIdle /\ CsvIdle

\* a call that fails at the sort: the date column is not in the frame
CallFrequencyRaises ==
    /\ fqOut.status = "not called"
    /\ "date" \notin fqIn.frame.columns
    /\ fqOut' = Raised("KeyError")
    /\ fqIn' = [fqIn EXCEPT !.frame = InputAfter(fqIn.frame, fqOut')]
    /\ UNCHANGED <<detectorVars, normVars, tfVars, ctVars, storeVars, csvVars>>

\* a call that returns
CallFrequency ==
    /\ fqOut.status = "not called"
    /\ "date" \in fqIn.frame.columns
    /\ \E sorted \in SortValues(Labelled(fqIn.frame.rows)) :
          fqOut' = CalculatePurchaseFrequency(fqIn.frame, fqIn.user_id_column, sorted)
    /\ fqIn' = [fqIn EXCEPT !.frame = InputAfter(fqIn.frame, fqOut')]
    /\ UNCHANGED <<detectorVars, normVars, tfVars, ctVars, storeVars, csvVars>>

NextFq == CallFrequency \/ CallFrequencyRaises

SpecFq == InitFq /\ [][NextFq]_vars

-----------------------------------------------------------------------------
(* extract_time_features: features.py lines 11-39 *)

\* longest frame given to extract_time_features
MaxTfLen == 2

\* a timestamp in hours since 1970-01-01 00:00
At(days, hour) == days * HoursPerDay + hour

\* 1970-01-01 00h, 1970-01-05 09h, 2020-12-31 23h, 2021-01-03 00h,
\* 2023-01-01 12h, 2024-02-29 13h, 2024-03-02 00h, 2024-03-03 23h,
\* 2024-06-18 07h, 2024-06-19 18h, 2024-06-21 01h, 2024-12-30 06h
TfDates ==
    { At(0, 0), At(4, 9), At(18627, 23), At(18630, 0), At(19358, 12), At(19782, 13),
      At(19784, 0), At(19785, 23), At(19892, 7), At(19893, 18), At(19895, 1),
      At(20087, 6) }

TfColumns == {"id", "date"}

DateColumnSet == {"date", "timestamp"}

TfFrames ==
    {[columns |-> TfColumns \ drop, rows |-> [p \in DOMAIN ds |-> [id |-> p, date |-> ds[p]]]] :
        drop \in {{}, {"date"}}, ds \in UNION {[1..n -> TfDates] : n \in 1..MaxTfLen}}

\* the calendar date of a timestamp: [y, m, d, doy], doy counted from 1 March
CivilFromDays(days) ==
    LET z   == days + 719468
        era == z \div 146097
        doe == z - era * 146097
        yoe == (doe - doe \div 1460 + doe \div 36524 - doe \div 146096) \div 365
        doy == doe - (365 * yoe + yoe \div 4 - yoe \div 100)
        mp  == (5 * doy + 2) \div 153
        d   == doy - (153 * mp + 2) \div 5 + 1
        m   == IF mp < 10 THEN mp + 3 ELSE mp - 9
    IN  [y |-> yoe + era * 400 + (IF m <= 2 THEN 1 ELSE 0), m |-> m, d |-> d]

\* .dt.year, .dt.month, .dt.day, .dt.hour: lines 30-32, 35
DtYear(t) == CivilFromDays(t \div HoursPerDay).y

DtMonth(t) == CivilFromDays(t \div HoursPerDay).m

DtDay(t) == CivilFromDays(t \div HoursPerDay).d

DtHour(t) == t % HoursPerDay

\* .dt.dayofweek, line 33: computed from year, month and day; 0 is Monday
DtDayOfWeek(t) ==
    LET c      == CivilFromDays(t \div HoursPerDay)
        shifts == <<0, 3, 2, 5, 0, 3, 5, 1, 4, 6, 2, 4>>
        y      == IF c.m < 3 THEN c.y - 1 ELSE c.y
        sunday0 == (y + y \div 4 - y \div 100 + y \div 400 + shifts[c.m] + c.d) % 7
    IN  (sunday0 + 6) % 7

\* variant: Sunday only
IsWeekend_SundayOnly(day_of_week) == day_of_week >= 6

\* line 34: result['day_of_week'] >= 5
IsWeekend(day_of_week) == day_of_week >= 5

\* .dt.quarter, line 36
DtQuarter(t) == (DtMonth(t) - 1) \div 3 + 1

IsLeap(y) == y % 4 = 0 /\ (y % 100 # 0 \/ y % 400 = 0)

DayOfYear(c) ==
    LET before == <<0, 31, 59, 90, 120, 151, 181, 212, 243, 273, 304, 334>>
    IN  before[c.m] + c.d + (IF c.m > 2 /\ IsLeap(c.y) THEN 1 ELSE 0)

\* the ISO weeks of year y: 53 when 1 January is a Thursday, or a Wednesday
\* of a leap year
WeeksInYear(y) ==
    LET p(x) == (x + x \div 4 - x \div 100 + x \div 400) % 7
    IN  IF p(y) = 4 \/ p(y - 1) = 3 THEN 53 ELSE 52

\* .dt.isocalendar().week, line 37
DtIsoWeek(t) ==
    LET c == CivilFromDays(t \div HoursPerDay)
        w == (DayOfYear(c) - (DtDayOfWeek(t) + 1) + 10) \div 7
    IN  IF w < 1 THEN WeeksInYear(c.y - 1)
        ELSE IF w > WeeksInYear(c.y) THEN 1
        ELSE w

\* variant: the date column is never looked for
DateColumnMissing_Never(frame, date_column) == FALSE

\* line 26: date_column not in result.columns
DateColumnMissing(frame, date_column) == date_column \notin frame.columns

\* lines 30-37
TimeFeatures(row, date_column) ==
    [id |-> row.id, date |-> row.date,
     year |-> DtYear(row.date), month |-> DtMonth(row.date), day |-> DtDay(row.date),
     day_of_week |-> DtDayOfWeek(row.date),
     weekend |-> IsWeekend(DtDayOfWeek(row.date)),
     hour |-> DtHour(row.date), quarter |-> DtQuarter(row.date),
     week_of_year |-> DtIsoWeek(row.date)]

ExtractTimeFeatures(frame, date_column) ==
    IF DateColumnMissing(frame, date_column) THEN Raised("ValueError")
    ELSE [status  |-> "returned", error |-> "",
          columns |-> frame.columns \cup
                      {"year", "month", "day", "day_of_week", "weekend", "hour",
                       "quarter", "week_of_year"},
          groups  |-> <<>>,
          rows    |-> [p \in DOMAIN frame.rows |-> TimeFeatures(frame.rows[p], date_column)]]

\* the caller names a column that is the frame's date column or is not a
\* column of the frame
InitTf ==
    /\ tfIn \in [frame : TfFrames, date_column : DateColumnSet]
    /\ tfOut = NotCalled
    /\ DetectorIdle /\ NormIdle /\ FqIdle /\ CtIdle /\ StoreIdle /\ CsvIdle

CallTimeFeatures ==
    /\ tfOut.status = "not called"
    /\ tfOut' = ExtractTimeFeatures(tfIn.frame, tfIn.date_column)
    /\ tfIn' = [tfIn EXCEPT !.frame = InputAfter(tfIn.frame, tfOut')]
    /\ UNCHANGED <<detectorVars, normVars, fqVars, ctVars, storeVars, csvVars>>

NextTf == CallTimeFeatures

SpecTf == InitTf /\ [][NextTf]_vars

-----------------------------------------------------------------------------
(* categorize_text: features.py lines 174-206 *)

\* most rows of a frame given to categorize_text
MaxCtLen == 2

\* most categories of a keywords_dict
MaxCategories == 2

\* "Burger Restaurant"
T_Burger_Restaurant == <<66, 117, 114, 103, 101, 114, 32, 82, 101, 115, 116, 97, 117, 114, 97, 110, 116>>

\* "burger king"
T_burger_king == <<98, 117, 114, 103, 101, 114, 32, 107, 105, 110, 103>>

\* "Taxi ride"
T_Taxi_ride == <<84, 97, 120, 105, 32, 114, 105, 100, 101>>

\* "ATM"
T_ATM == <<65, 84, 77>>

\* "restaurant"
K_restaurant == <<114, 101, 115, 116, 97, 117, 114, 97, 110, 116>>

\* "burger"
K_burger == <<98, 117, 114, 103, 101, 114>>

\* "Burger"
K_Burger == <<66, 117, 114, 103, 101, 114>>

\* "taxi"
K_taxi == <<116, 97, 120, 105>>

\* "burger."
K_burger_dot == <<98, 117, 114, 103, 101, 114, 46>>

CtTexts == {T_Burger_Restaurant, T_burger_king, T_Taxi_ride, T_ATM}

CtColumns == {"id", "description"}

CtFrames ==
    {[columns |-> CtColumns \ drop,
      rows |-> [p \in DOMAIN ts |-> [id |-> p, description |-> ts[p]]]] :
        drop \in {{}, {"description"}}, ts \in UNION {[1..n -> CtTexts] : n \in 1..MaxCtLen}}

\* the items of a keywords_dict: lower-case keywords, a keyword with an
\* upper-case letter, an empty keyword list, a keyword with a '.'
CategoryPool ==
    << [category |-> "Food",      keywords |-> <<K_restaurant>>],
       [category |-> "Fast Food", keywords |-> <<K_restaurant, K_burger>>],
       [category |-> "Grill",     keywords |-> <<K_Burger>>],
       [category |-> "Misc",      keywords |-> <<>>],
       [category |-> "Transport", keywords |-> <<K_taxi>>],
       [category |-> "Chains",    keywords |-> <<K_burger_dot>>] >>

\* a dict in its iteration order: its items, no category twice
KeywordDicts ==
    {[p \in DOMAIN ks |-> CategoryPool[ks[p]]] : ks \in
        {s \in UNION {[1..n -> DOMAIN CategoryPool] : n \in 0..MaxCategories} :
            \A i, j \in DOMAIN s : i # j => s[i] # s[j]}}

\* line 201: '|'.join(keywords) read as a regular expression: one
\* alternative per keyword, and the empty pattern for an empty list
Alternatives(keywords) ==
    IF keywords = <<>> THEN {<<>>} ELSE {keywords[k] : k \in DOMAIN keywords}

\* one character of the pattern against one of the text: '.' is any
\* character, a letter, digit or space is itself, in its own case
PatternCharMatches(pc, c) == pc = 46 \/ pc = c

MatchesAt(pattern, txt, i) ==
    /\ i + Len(pattern) - 1 <= Len(txt)
    /\ \A k \in 1..Len(pattern) : PatternCharMatches(pattern[k], txt[i + k - 1])

\* re.search: the pattern matches somewhere in the text
Search(pattern, txt) == \E i \in 1..(Len(txt) + 1) : MatchesAt(pattern, txt, i)

\* line 203: text_lower.str.contains(pattern, na=False)
Mask(keywords, text_lower) == \E alt \in Alternatives(keywords) : Search(alt, text_lower)

\* variant: a category already set is kept
Assign_KeepFirst(current, category, mask) ==
    IF mask /\ current = "Uncategorized" THEN category ELSE current

\* line 204: result.loc[mask, 'derived_category'] = category
Assign(current, category, mask) == IF mask THEN category ELSE current

\* lines 193-204 for one row: the category after the first n items of the dict
RECURSIVE LoopCategories(_, _, _)
LoopCategories(keywords_dict, text_lower, n) ==
    IF n = 0 THEN "Uncategorized"
    ELSE Assign(LoopCategories(keywords_dict, text_lower, n - 1),
                keywords_dict[n].category,
                Mask(keywords_dict[n].keywords, text_lower))

CategorizeText(frame, text_column, keywords_dict) ==
    IF text_column \notin frame.columns THEN Raised("KeyError")
    ELSE [status  |-> "returned", error |-> "",
          columns |-> frame.columns \cup {"derived_category"},
          groups  |-> <<>>,
          rows    |->
             [p \in DOMAIN frame.rows |->
                 [id |-> frame.rows[p].id, description |-> frame.rows[p].description,
                  derived_category |->
                     LoopCategories(keywords_dict, StrLower(frame.rows[p].description),
                                    Len(keywords_dict))]]]

InitCt ==
    /\ ctIn \in [frame : CtFrames, text_column : {"description"}, keywords_dict : KeywordDicts]
    /\ ctOut = NotCalled
    /\ DetectorIdle /\ NormIdle /\ FqIdle /\ TfIdle /\ StoreIdle /\ CsvIdle

CallCategorize ==
    /\ ctOut.status = "not called"
    /\ ctOut' = CategorizeText(ctIn.frame, ctIn.text_column, ctIn.keywords_dict)
    /\ ctIn' = [ctIn EXCEPT !.frame = InputAfter(ctIn.frame, ctOut')]
    /\ UNCHANGED <<detectorVars, normVars, fqVars, tfVars, storeVars, csvVars>>

NextCt == CallCategorize

SpecCt == InitCt /\ [][NextCt]_vars

-----------------------------------------------------------------------------
(* The four feature functions side by side: one of them is given a frame *)

InitFeatures == Init \/ InitFq \/ InitTf \/ InitCt

\* only the function that was given a frame is called
NextFeatures ==
    \/ df # NoFrame /\ Next
    \/ fqIn.frame # NoFrame /\ NextFq
    \/ tfIn.frame # NoFrame /\ NextTf
    \/ ctIn.frame # NoFrame /\ NextCt

SpecFeatures == InitFeatures /\ [][NextFeatures]_vars

-----------------------------------------------------------------------------
(* The purchase endpoints: main.py lines 136-222 *)

\* most purchases stored
MaxPurchases == 3

\* the authenticated callers (get_current_active_user)
ApiUsers == {1, 2}

\* Optional[int]: <<>> is None, <<k>> is the integer k
NoneId == <<>>

SomeId(k) == <<k>>

\* `if category_id:` is false for None and for 0
Truthy(cid) == cid # NoneId /\ cid[1] # 0

\* the stored categories, by id: two of user 1, one of user 2
StoredCategories ==
    << [id |-> 1, user_id |-> 1], [id |-> 2, user_id |-> 1], [id |-> 3, user_id |-> 2] >>

\* the category ids a request may carry: none, 0, the stored ones, an unknown one
CategoryIdSet == {NoneId} \cup {SomeId(k) : k \in 0..(Len(StoredCategories) + 1)}

\* session.get(Category, id): the category, or None
GetCategory(cid) ==
    IF cid[1] \in DOMAIN StoredCategories THEN <<StoredCategories[cid[1]]>> ELSE <<>>

\* main.py lines 155-157: the category check
InvalidCategory(cid, current_user) ==
    /\ Truthy(cid)
    /\ IF GetCategory(cid) = <<>> THEN TRUE
       ELSE GetCategory(cid)[1].user_id # current_user

\* the row's category_id refers to no stored category
BrokenForeignKey(cid) == cid # NoneId /\ GetCategory(cid) = <<>>

Response(status_code, detail, body) ==
    [status_code |-> status_code, detail |-> detail, body |-> body]

\* main.py line 164: Purchase.from_orm(purchase, update={"user_id": current_user.id});
\* the id is the next key of the table
NewPurchase(stored, current_user, cid) ==
    [id |-> Len(stored) + 1, user_id |-> current_user, category_id |-> cid]

\* POST /purchases/ refused at lines 158-161
CreatePurchaseRejected ==
    \E u \in ApiUsers, cid \in CategoryIdSet :
        /\ InvalidCategory(cid, u)
        /\ lastCall' = [op |-> "create_purchase", user |-> u, category_id |-> cid,
                        before |-> store]
        /\ resp' = Response(400, "Invalid category", <<>>)
        /\ UNCHANGED <<store, detectorVars, normVars, fqVars, tfVars, ctVars, csvVars>>

\* POST /purchases/ past the check, lines 164-174
CreatePurchaseStored ==
    \E u \in ApiUsers, cid \in CategoryIdSet :
        /\ Len(store) < MaxPurchases
        /\ ~InvalidCategory(cid, u)
        /\ lastCall' = [op |-> "create_purchase", user |-> u, category_id |-> cid,
                        before |-> store]
        /\ store' = Append(store, NewPurchase(store, u, cid))
        /\ resp' = Response(200, "", <<NewPurchase(store, u, cid)>>)
        /\ UNCHANGED <<detectorVars, normVars, fqVars, tfVars, ctVars, csvVars>>

\* POST /purchases/ past the check with a category_id no category has, on a
\* database that enforces foreign keys: session.commit() at line 166
\* raises IntegrityError (SQLite as configured in database.py does not
\* enforce them, and CreatePurchaseStored is what happens there)
CreatePurchaseCommitFails ==
    \E u \in ApiUsers, cid \in CategoryIdSet :
        /\ ~InvalidCategory(cid, u)
        /\ BrokenForeignKey(cid)
        /\ lastCall' = [op |-> "create_purchase", user |-> u, category_id |-> cid,
                        before |-> store]
        /\ resp' = Response(500, "IntegrityError", <<>>)
        /\ UNCHANGED <<store, detectorVars, normVars, fqVars, tfVars, ctVars, csvVars>>

\* main.py lines 201-207 with start_date and end_date left out: the rows
\* of the query, in table order
QueryPurchases(stored, current_user, cid) ==
    SelectSeq(stored,
              LAMBDA row : /\ row.user_id = current_user
                           /\ Truthy(cid) => row.category_id = cid)

\* line 212: .offset(skip).limit(limit)
Page(rows, skip, limit) ==
    SubSeq(rows, skip + 1, IF skip + limit < Len(rows) THEN skip + limit ELSE Len(rows))

\* GET /purchases/: the query has no ORDER BY, so the rows come in any order
GetPurchases ==
    \E u \in ApiUsers, cid \in CategoryIdSet, skip \in {0, 1}, limit \in {1, 100} :
        LET rows == QueryPurchases(store, u, cid)
        IN  \E f \in Arrangements(Len(rows)) :
                /\ lastCall' = [op |-> "get_purchases", user |-> u, category_id |-> cid,
                                before |-> store]
                /\ resp' = Response(200, "", Page([p \in DOMAIN rows |-> rows[f[p]]], skip, limit))
                /\ UNCHANGED <<store, detectorVars, normVars, fqVars, tfVars, ctVars, csvVars>>

InitApi ==
    /\ StoreIdle
    /\ DetectorIdle /\ NormIdle /\ FqIdle /\ TfIdle /\ CtIdle /\ CsvIdle

NextApi ==
    \/ CreatePurchaseRejected
    \/ CreatePurchaseStored
    \/ CreatePurchaseCommitFails
    \/ GetPurchases

SpecApi == InitApi /\ [][NextApi]_vars

-----------------------------------------------------------------------------
(* save_dataframe_to_purchases: dataset.py lines 91-160 *)

\* most rows of a frame given to save_dataframe_to_purchases
MaxSaveRows == 2

\* the table before the call: empty, or one purchase of each user
SaveStores ==
    { <<>>,
      << [id |-> 1, user_id |-> 1, category_id |-> SomeId(1)],
         [id |-> 2, user_id |-> 2, category_id |-> SomeId(3)] >> }

SaveColumns == {"id", "amount", "description", "user_id", "category_id"}

\* a row: an id (0, a stored purchase's, or the next one the table will
\* give out), a user_id and a category_id
SaveRows ==
    [id : {SomeId(k) : k \in 0..3}, user_id : ApiUsers, category_id : {NoneId, SomeId(2)}]

SaveFrames ==
    {[columns |-> SaveColumns \ drop, rows |-> rows] :
        drop \in {{}, {"id"}, {"user_id"}, {"amount"}},
        rows \in UNION {[1..n -> SaveRows] : n \in 0..MaxSaveRows}}

\* session.get(Purchase, purchase_id): the position of the purchase in the
\* table, 0 if there is none; a purchase added earlier in the loop is found
\* too, the session flushing it before the SELECT
GetPurchase(stored, purchase_id) ==
    IF \E k \in DOMAIN stored : stored[k].id = purchase_id[1]
    THEN CHOOSE k \in DOMAIN stored : stored[k].id = purchase_id[1]
    ELSE 0

\* lines 130-132: every column of the row but id that is an attribute of
\* the purchase is set on it, user_id among them
UpdateFields(purchase, row, columns) ==
    [id |-> purchase.id,
     user_id |-> IF "user_id" \in columns THEN row.user_id ELSE purchase.user_id,
     category_id |-> IF "category_id" \in columns THEN row.category_id
                     ELSE purchase.category_id]

\* lines 136-141 and 145-150: the row without its id, user_id set to the
\* caller's; the id is the next key of the table
PurchaseFromRow(stored, row, columns, user_id) ==
    [id |-> Len(stored) + 1, user_id |-> user_id,
     category_id |-> IF "category_id" \in columns THEN row.category_id ELSE NoneId]

\* lines 122-151 for one row, on acc = [stored, num_added, num_updated]
SaveRow(acc, row, columns, user_id, update_existing) ==
    LET purchase_id == IF "id" \in columns THEN row.id ELSE NoneId
        k == IF Truthy(purchase_id) /\ update_existing
             THEN GetPurchase(acc.stored, purchase_id) ELSE 0
    IN  IF k # 0 /\ acc.stored[IF k = 0 THEN 1 ELSE k].user_id = user_id
        THEN [acc EXCEPT !.stored[k] = UpdateFields(acc.stored[k], row, columns),
                         !.num_updated = acc.num_updated + 1]
        ELSE [acc EXCEPT !.stored = Append(acc.stored,
                                           PurchaseFromRow(acc.stored, row, columns, user_id)),
                         !.num_added = acc.num_added + 1]

\* lines 121-154: the loop, from row i on
RECURSIVE SaveRowsFrom(_, _, _, _, _)
SaveRowsFrom(acc, frame, i, user_id, update_existing) ==
    IF i > Len(frame.rows) THEN acc
    ELSE SaveRowsFrom(SaveRow(acc, frame.rows[i], frame.columns, user_id, update_existing),
                      frame, i + 1, user_id, update_existing)

SaveDataframeToPurchases(stored, frame, user_id, update_existing) ==
    IF {"amount", "description"} \ frame.columns # {}
    THEN [status |-> "raised", error |-> "ValueError", stored |-> stored,
          num_added |-> 0, num_updated |-> 0]
    ELSE LET acc == SaveRowsFrom([stored |-> stored, num_added |-> 0, num_updated |-> 0],
                                 frame, 1, user_id, update_existing)
         IN  [status |-> "returned", error |-> "", stored |-> acc.stored,
              num_added |-> acc.num_added, num_updated |-> acc.num_updated]

InitSave ==
    /\ store \in SaveStores
    /\ lastCall = NoCall
    /\ resp = NoResponse
    /\ DetectorIdle /\ NormIdle /\ FqIdle /\ TfIdle /\ CtIdle /\ CsvIdle

\* one call, committed at lines 157-158
CallSave ==
    /\ lastCall.op = "none"
    /\ \E frame \in SaveFrames, u \in ApiUsers, update_existing \in BOOLEAN :
          LET result == SaveDataframeToPurchases(store, frame, u, update_existing)
          IN  /\ lastCall' = [op |-> "save_dataframe_to_purchases", user |-> u,
                              frame |-> frame, update_existing |-> update_existing,
                              before |-> store]
              /\ store' = result.stored
              /\ resp' = [status |-> result.status, error |-> result.error,
                          num_added |-> result.num_added, num_updated |-> result.num_updated]
    /\ UNCHANGED <<detectorVars, normVars, fqVars, tfVars, ctVars, csvVars>>

NextSave == CallSave

SpecSave == InitSave /\ [][NextSave]_vars

-----------------------------------------------------------------------------
(* import_from_csv: services/import_export.py lines 36-114 *)

\* most data rows of a CSV file
MaxCsvRows == 2

\* the cells of a data row as read_csv hands them over: a number, a text
\* that is no number, or NaN for an empty cell; a date in the mapping's
\* format, in another format, or NaN; a payment method, or NaN
CsvRows ==
    [amount : {"12.5", "abc", "NaN"},
     date : {"2024-03-02", "02/03/2024", "NaN"},
     payment_method : {"credit_card", "NaN"}]

\* the file: without a header line read_csv raises; with one, its data rows
CsvFiles ==
    [header : BOOLEAN, rows : UNION {[1..n -> CsvRows] : n \in 0..MaxCsvRows}]

\* the column mapping: whether mapping.amount names a column of the file,
\* and whether mapping.payment_method is set
CsvMappings == [amount_in_file : BOOLEAN, payment_method_mapped : BOOLEAN]

\* lines 66-98 for one row: the exception the row raises, "" if none
RowError(row, mapping) ==
    IF ~mapping.amount_in_file THEN "KeyError"
    ELSE IF row.amount = "abc" THEN "ValueError"
    ELSE IF row.date = "NaN" THEN "TypeError"
    ELSE IF row.date # "2024-03-02" THEN "ValueError"
    ELSE IF mapping.payment_method_mapped /\ row.payment_method = "NaN" THEN "AttributeError"
    ELSE ""

\* lines 65-102: the purchase of a row that raises nothing; float(NaN) is
\* a float, and PaymentMethod(s.upper()) fails for every s, leaving OTHER
RowPurchase(label, row, mapping) ==
    [row |-> label, amount |-> row.amount, date |-> row.date,
     payment_method |-> "other"]

\* variant: the failure is reported but not counted
OnRowError_NotCounted(acc, label, error) ==
    [acc EXCEPT !.errors = Append(acc.errors, [row |-> label, error |-> error])]

\* lines 104-106: except Exception
OnRowError(acc, label, error) ==
    [acc EXCEPT !.failed_imports = acc.failed_imports + 1,
                !.errors = Append(acc.errors, [row |-> label, error |-> error])]

\* lines 64-106: the loop, from row i on
RECURSIVE ImportRows(_, _, _, _)
ImportRows(rows, mapping, i, acc) ==
    IF i > Len(rows) THEN acc
    ELSE ImportRows(rows, mapping, i + 1,
            IF RowError(rows[i], mapping) = ""
            THEN [acc EXCEPT !.purchases =
                      Append(acc.purchases, RowPurchase(i - 1, rows[i], mapping))]
            ELSE OnRowError(acc, i - 1, RowError(rows[i], mapping)))

ImportFromCsv(file, mapping) ==
    IF ~file.header
    THEN [status |-> "raised", error |-> "EmptyDataError", purchases |-> <<>>,
          successful_imports |-> 0, failed_imports |-> 0, errors |-> <<>>]
    ELSE LET acc == ImportRows(file.rows, mapping, 1,
                               [purchases |-> <<>>, failed_imports |-> 0, errors |-> <<>>])
         IN  [status |-> "returned", error |-> "", purchases |-> acc.purchases,
              successful_imports |-> Len(acc.purchases),
              failed_imports |-> acc.failed_imports, errors |-> acc.errors]

InitCsv ==
    /\ csvIn \in [file : {f \in CsvFiles : ~f.header => f.rows = <<>>}, mapping : CsvMappings]
    /\ csvOut = NotCalled
    /\ DetectorIdle /\ NormIdle /\ FqIdle /\ TfIdle /\ CtIdle /\ StoreIdle

\* the coroutine at line 52, `await file.read()`: nothing is computed yet and
\* the event loop runs other callbacks until the read completes
Awaiting(line) == [status |-> "awaiting", line |-> line]

\* lines 36-52: the call is started and suspends on the read of the file
StartImport ==
    /\ csvOut.status = "not called"
    /\ csvOut' = Awaiting(52)
    /\ UNCHANGED <<csvIn, detectorVars, normVars, fqVars, tfVars, ctVars, storeVars>>

\* lines 52-114: the read has completed, the coroutine is resumed and runs
\* to its return without another await
ResumeImport ==
    /\ csvOut.status = "awaiting"
    /\ csvOut' = ImportFromCsv(csvIn.file, csvIn.mapping)
    /\ UNCHANGED <<csvIn, detectorVars, normVars, fqVars, tfVars, ctVars, storeVars>>

NextCsv == StartImport \/ ResumeImport

SpecCsv == InitCsv /\ [][NextCsv]_vars

-----------------------------------------------------------------------------
(* Vocabulary of the properties *)

\* whether this call groups by user as well as by normalised description
GroupedByUser == cfg.user_id_column # "None" /\ cfg.user_id_column \in df.columns

\* two records of one group: same grouping key, same normalised description
SameGroup(r1, r2) ==
    /\ SimpleDesc(r1.description) = SimpleDesc(r2.description)
    /\ GroupedByUser => r1.user_id = r2.user_id

\* positions of the group of the record at position p of a frame's rows
GroupAt(rows, p) == {q \in DOMAIN rows : SameGroup(rows[p], rows[q])}

Flags(rows) == [p \in DOMAIN rows |-> rows[p].is_recurring]

\* the positions in S in ascending order
RECURSIVE Ascending(_)
Ascending(S) ==
    IF S = {} THEN <<>>
    ELSE LET least == CHOOSE x \in S : \A y \in S : x <= y
         IN  <<least>> \o Ascending(S \ {least})

\* the recurrence test as section 4.4 states it for the group of position p:
\* coefficient of variation of the amounts, and standard deviation of the
\* gaps, in whole days, between consecutive members sorted by timestamp
StatedTest(rows, p) ==
    LET members == SortByDate(rows, Ascending(GroupAt(rows, p)))
        amounts == [i \in DOMAIN members |-> rows[members[i]].amount]
        gaps    == [i \in 1..(Len(members) - 1) |->
                       Days(rows[members[i + 1]].date - rows[members[i]].date)]
    IN  /\ Leq(AmountVariance(amounts), MaxAmountVarianceNum, MaxAmountVarianceDen)
        /\ Leq(DaysVariance(gaps), MaxDaysVariance, 1)

-----------------------------------------------------------------------------
(* Properties *)

\* C1: after the detector returns, the members of one group (same grouping
\* key, same normalised description) are all flagged or all unflagged.
C1_AllOrNothing ==
    \A res \in {out, again} :
        res.status = "returned" =>
            \A p, q \in DOMAIN res.rows :
                SameGroup(res.rows[p], res.rows[q]) =>
                    res.rows[p].is_recurring = res.rows[q].is_recurring

\* a returned frame with a flagged group of two or more and an unflagged record
C1_Witness ==
    /\ out.status = "returned"
    /\ \E p, q \in DOMAIN out.rows :
          p # q /\ SameGroup(out.rows[p], out.rows[q]) /\ out.rows[p].is_recurring
    /\ \E p \in DOMAIN out.rows : ~out.rows[p].is_recurring

\* C2 (as claimed): the members of every group with at least min_occurrences
\* members are flagged if and only if the coefficient of variation of its
\* amounts is <= max_amount_variance and the standard deviation of its
\* day gaps, taken between consecutive sorted timestamps, is <= max_days_variance.
C2_FlagIffBothTests ==
    (out.status = "returned" /\ df.columns = AllColumns /\ cfg.min_occurrences >= 2) =>
        \A p \in DOMAIN out.rows :
            Cardinality(GroupAt(out.rows, p)) >= cfg.min_occurrences =>
                (out.rows[p].is_recurring <=> StatedTest(out.rows, p))

\* C3: a group with fewer than min_occurrences members has no flagged member
\* in the output, however uniform its amounts and dates.
C3_Floor ==
    \A res \in {out, again} :
        res.status = "returned" =>
            \A p \in DOMAIN res.rows :
                Cardinality(GroupAt(res.rows, p)) < cfg.min_occurrences =>
                    ~res.rows[p].is_recurring

\* a returned frame holding a group of two below the floor that meets both tests
C3_Witness ==
    /\ out.status = "returned"
    /\ df.columns = AllColumns
    /\ \E p \in DOMAIN out.rows :
          /\ Cardinality(GroupAt(out.rows, p)) = 2
          /\ cfg.min_occurrences = 3
          /\ StatedTest(out.rows, p)
          /\ ~out.rows[p].is_recurring

\* C4 (as claimed): with min_occurrences < 2 the detector fails and returns
\* no augmented frame.
C4_RejectsSmallMinOccurrences ==
    cfg.min_occurrences < 2 => out.status # "returned"

\* C5 (as claimed): with one of description, amount, date absent from the
\* input the detector fails and returns no result, whatever the rows are.
C5_RejectsMissingColumn ==
    ({"description", "amount", "date"} \ df.columns # {}) => out.status # "returned"

\* the frame with every stored is_recurring value replaced by b
WithFlags(frame, b) ==
    [columns |-> frame.columns,
     rows    |-> [p \in DOMAIN frame.rows |-> [frame.rows[p] EXCEPT !.is_recurring = b]]]

GroupAmounts(rows, p) ==
    LET members == Ascending(GroupAt(rows, p))
    IN  [i \in DOMAIN members |-> rows[members[i]].amount]

\* C6: a surviving group of two or more records whose amounts sum to zero
\* (all zero, or cancelling) has no flagged member, and the division by the
\* zero mean raises nothing: a frame that is exactly one such group is
\* returned, and no call ends in an exception other than a missing key.
C6_ZeroMeanFailsAmountTest ==
    /\ out.status = "raised" => out.error = "KeyError"
    /\ (out.status = "returned" /\ "amount" \in df.columns) =>
          \A p \in DOMAIN out.rows :
              LET G == GroupAt(out.rows, p)
              IN  (/\ Cardinality(G) >= 2
                   /\ Cardinality(G) >= cfg.min_occurrences
                   /\ SeqSum(GroupAmounts(out.rows, p)) = 0)
                  => ~out.rows[p].is_recurring
    /\ (/\ out.status # "not called"
        /\ df.columns = AllColumns
        /\ GroupAt(df.rows, 1) = DOMAIN df.rows
        /\ SeqSum(GroupAmounts(df.rows, 1)) = 0)
       => out.status = "returned"

\* a returned frame with a surviving group of cancelling non-zero amounts and
\* a single day gap: only the amount test can have failed it
C6_Witness ==
    /\ out.status = "returned"
    /\ df.columns = AllColumns
    /\ \E p \in DOMAIN out.rows :
          /\ Cardinality(GroupAt(out.rows, p)) = 2
          /\ cfg.min_occurrences = 2
          /\ out.rows[p].amount # 0
          /\ SeqSum(GroupAmounts(out.rows, p)) = 0
          /\ ~out.rows[p].is_recurring

\* C7 (as claimed): with valid input, the call on one user's rows alone ends
\* as the call on the whole frame does and gives each of that user's records
\* the same flag.
C7_FanOutAgrees ==
    (/\ out.status # "not called"
     /\ perKey # <<>>
     /\ df.columns = AllColumns
     /\ cfg.min_occurrences >= 2)
    => \A u \in DOMAIN perKey :
          /\ perKey[u].status = out.status
          /\ out.status = "returned" =>
                Flags(perKey[u].rows) =
                    Flags(SelectSeq(out.rows, LAMBDA r : r.user_id = u))

\* C8: a second call, on the frame the first call returned, returns the
\* same frame: every record keeps the flag the first call gave it.
C8_Idempotent ==
    again.status # "not called" =>
        /\ again.status = "returned"
        /\ again.columns = out.columns
        /\ again.rows = out.rows

\* a second call made on a frame in which the first call flagged a group
C8_Witness ==
    /\ again.status = "returned"
    /\ \E p \in DOMAIN again.rows : again.rows[p].is_recurring
    /\ \E p \in DOMAIN again.rows : ~again.rows[p].is_recurring

\* C9: each output flag is the detector's own verdict on the record's group
\* (true exactly for the rows of an evaluated group that met both tests), and
\* is the same whatever is_recurring values the input carried.
C9_OwnsFlag ==
    out.status = "returned" =>
        /\ \A p \in DOMAIN out.rows :
              out.rows[p].is_recurring <=>
                  \E g \in DOMAIN out.groups :
                      out.groups[g].passes /\ p \in Range(out.groups[g].idx)
        /\ \A b \in BOOLEAN :
              Flags(Detect(WithFlags(df, b)).rows) = Flags(out.rows)

\* an input record carrying is_recurring = true, in no passing group, comes
\* out false
C9_Witness ==
    /\ out.status = "returned"
    /\ \E p \in DOMAIN out.rows :
          df.rows[p].is_recurring /\ ~out.rows[p].is_recurring

\* C10: the groups the loop evaluates are pairwise disjoint, each is exactly
\* the set of records with its (grouping key, normalised description), and
\* every record of a surviving group is in exactly one of them.
C10_GroupsPartition ==
    out.status = "returned" =>
        /\ \A g, h \in DOMAIN out.groups :
              g # h => Range(out.groups[g].idx) \cap Range(out.groups[h].idx) = {}
        /\ \A g \in DOMAIN out.groups :
              \A p \in Range(out.groups[g].idx) :
                  Range(out.groups[g].idx) = GroupAt(out.rows, p)
        /\ \A p \in DOMAIN out.rows :
              Cardinality(GroupAt(out.rows, p)) >= cfg.min_occurrences =>
                  Cardinality({g \in DOMAIN out.groups :
                                  p \in Range(out.groups[g].idx)}) = 1

\* a returned call that evaluated two groups, of different users and the same
\* normalised description, and flagged one of two or more records
C10_Witness ==
    /\ out.status = "returned"
    /\ \E g, h \in DOMAIN out.groups :
          /\ g # h
          /\ Len(out.groups[g].idx) >= 2
          /\ out.groups[g].passes
          /\ Len(out.groups[g].key) = 2
          /\ out.groups[g].key[2] = out.groups[h].key[2]

\* the key as section 4.3 words it: of the lowercased description, the
\* characters that are a lowercase letter or whitespace, from the first to
\* the last of them that is not whitespace
StatedKey(s) ==
    LET lowered == [i \in DOMAIN s |-> IF s[i] >= 65 /\ s[i] <= 90 THEN s[i] + 32 ELSE s[i]]
        white   == {9, 10, 11, 12, 13, 28, 29, 30, 31, 32}
        letter(i) == lowered[i] >= 97 /\ lowered[i] <= 122
        letters == {i \in DOMAIN s : letter(i)}
        inside(i) == /\ letter(i) \/ lowered[i] \in white
                     /\ \E a \in letters : a <= i
                     /\ \E b \in letters : i <= b
        kept    == Ascending({i \in DOMAIN s : inside(i)})
    IN  [k \in DOMAIN kept |-> lowered[kept[k]]]

\* C11: three records of one user whose descriptions differ only in case,
\* digits and punctuation, with equal amounts and 30 days between each and
\* the next, given in date order as the first rows of the frame (any further
\* row being of another group), are all flagged when min_occurrences = 3.
C11_SameObligation ==
    (/\ out.status # "not called"
     /\ df.columns = AllColumns
     /\ cfg.min_occurrences = 3
     /\ Len(df.rows) >= 3
     /\ \A p \in 1..3 :
           /\ df.rows[p].user_id = df.rows[1].user_id
           /\ df.rows[p].amount = df.rows[1].amount
           /\ StatedKey(df.rows[p].description) = StatedKey(df.rows[1].description)
     /\ \A p \in 1..2 : df.rows[p + 1].date - df.rows[p].date = 30 * HoursPerDay
     /\ \A p \in 4..Len(df.rows) :
           StatedKey(df.rows[p].description) # StatedKey(df.rows[1].description))
    => /\ out.status = "returned"
       /\ \A p \in 1..3 : out.rows[p].is_recurring

\* the three records "NETFLIX 123", "Netflix", "netflix!" in date order, flagged
C11_Witness ==
    /\ out.status = "returned"
    /\ cfg.min_occurrences = 3
    /\ Len(df.rows) = 3
    /\ df.rows[1].description = D_NETFLIX_123
    /\ df.rows[2].description = D_Netflix
    /\ df.rows[3].description = D_netflixX
    /\ \A p \in 1..3 : out.rows[p].is_recurring

\* C12: the normalised key is the description lowercased, stripped of every
\* character that is not a-z or whitespace, then trimmed of leading and
\* trailing whitespace.
C12_NormalisedKey ==
    textKey.status = "returned" => textKey.key = StatedKey(text)

\* "Coffee Shop #42" has been normalised to "coffee shop"
C12_Witness ==
    /\ text = D_Coffee_Shop_42
    /\ textKey.status = "returned"
    /\ textKey.key = D_coffee_shop

\* whether calculate_purchase_frequency was asked to group by user
FqByUser == fqIn.user_id_column # "None" /\ fqIn.user_id_column \in fqIn.frame.columns

\* the rows of the output that come before row p and share its grouping key
FqBefore(p) ==
    {q \in 1..(p - 1) : FqByUser => fqOut.rows[q].user_id = fqOut.rows[p].user_id}

FracEq(a, b) == a.num * b.den = b.num * a.den

\* C13: the earliest record of each grouping key (of the whole frame when no
\* grouping key is used) has days_since_last_purchase = -1, a number and
\* not a missing value.
C13_SentinelGap ==
    fqOut.status = "returned" =>
        \A p \in DOMAIN fqOut.rows :
            LET d == fqOut.rows[p].days_since_last_purchase
            IN  /\ ~d.na
                /\ FqBefore(p) = {} => FracEq(d.value, Frac(-1, 1))
                /\ FqBefore(p) = {} =>
                      \A q \in DOMAIN fqOut.rows :
                          (FqByUser => fqOut.rows[q].user_id = fqOut.rows[p].user_id)
                          => fqOut.rows[p].date <= fqOut.rows[q].date

\* two users' records in one frame, each user's first record carrying -1
C13_Witness ==
    /\ fqOut.status = "returned"
    /\ FqByUser
    /\ \E p, q \in DOMAIN fqOut.rows :
          /\ p < q
          /\ fqOut.rows[p].user_id # fqOut.rows[q].user_id
          /\ FracEq(fqOut.rows[p].days_since_last_purchase.value, Frac(-1, 1))
          /\ FracEq(fqOut.rows[q].days_since_last_purchase.value, Frac(-1, 1))

\* C14: the output is in ascending timestamp order, and every record that
\* is not the first of its grouping key has days_since_last_purchase =
\* (its timestamp - the timestamp of the nearest earlier record of the same
\* key) in seconds / 86400, that is in hours / 24; without a grouping key,
\* of the record just before.
C14_GapToPrevious ==
    fqOut.status = "returned" =>
        /\ \A p, q \in DOMAIN fqOut.rows :
              p < q => fqOut.rows[p].date <= fqOut.rows[q].date
        /\ \A p \in DOMAIN fqOut.rows :
              FqBefore(p) # {} =>
                  LET last == CHOOSE q \in FqBefore(p) : \A o \in FqBefore(p) : o <= q
                  IN  /\ ~FqByUser => last = p - 1
                      /\ FracEq(fqOut.rows[p].days_since_last_purchase.value,
                                Frac(fqOut.rows[p].date - fqOut.rows[last].date,
                                     HoursPerDay))

\* a record whose gap of a day and a half skips another user's record
C14_Witness ==
    /\ fqOut.status = "returned"
    /\ FqByUser
    /\ \E p \in DOMAIN fqOut.rows :
          /\ p >= 3
          /\ fqOut.rows[p - 1].user_id # fqOut.rows[p].user_id
          /\ fqOut.rows[p - 2].user_id = fqOut.rows[p].user_id
          /\ FracEq(fqOut.rows[p].days_since_last_purchase.value, Frac(3, 2))

\* C15 (as claimed): the sort is stable: two records with equal timestamps
\* come out in the order they had in the input.
C15_StableSort ==
    fqOut.status = "returned" =>
        \A p, q \in DOMAIN fqOut.rows :
            (p < q /\ fqOut.rows[p].date = fqOut.rows[q].date)
            => fqOut.rows[p].index < fqOut.rows[q].index

\* C16: day_of_week is in 0..6 with 0 = Monday and 6 = Sunday (the number
\* of days since the last Monday, 1970-01-05 being a Monday four days after
\* 1970-01-01), and weekend is true iff day_of_week is 5 or 6.
C16_WeekdayAndWeekend ==
    tfOut.status = "returned" =>
        \A p \in DOMAIN tfOut.rows :
            LET r == tfOut.rows[p]
            IN  /\ r.day_of_week \in 0..6
                /\ r.day_of_week = ((r.date \div HoursPerDay) - 4) % 7
                /\ r.weekend <=> r.day_of_week \in {5, 6}

\* a Saturday and a Monday in one frame: 2024-03-02 and 2024-12-30
C16_Witness ==
    /\ tfOut.status = "returned"
    /\ Len(tfOut.rows) = 2
    /\ tfOut.rows[1].year = 2024 /\ tfOut.rows[1].month = 3 /\ tfOut.rows[1].day = 2
    /\ tfOut.rows[1].day_of_week = 5 /\ tfOut.rows[1].weekend
    /\ tfOut.rows[2].year = 2024 /\ tfOut.rows[2].month = 12 /\ tfOut.rows[2].day = 30
    /\ tfOut.rows[2].day_of_week = 0 /\ ~tfOut.rows[2].weekend

\* C17: when the named date column is not a column of the frame, the call
\* fails with ValueError: nothing is returned and no feature is added.
C17_RejectsMissingDateColumn ==
    (tfOut.status # "not called" /\ tfIn.date_column \notin tfIn.frame.columns)
    => /\ tfOut.status = "raised"
       /\ tfOut.error = "ValueError"
       /\ tfOut.rows = <<>>
       /\ tfOut.columns = {}

\* a frame that has a date column, asked for by another name
C17_Witness ==
    /\ tfOut.status = "raised"
    /\ tfIn.date_column = "timestamp"
    /\ "date" \in tfIn.frame.columns

\* the items of the dict, by position, whose pattern the categorizer finds in row p
MatchingItems(p) ==
    {k \in DOMAIN ctIn.keywords_dict :
        Mask(ctIn.keywords_dict[k].keywords, StrLower(ctIn.frame.rows[p].description))}

\* C18: a record whose text matches the keywords of one or several
\* categories gets the matching category that comes last in the dict.
C18_LastMatchWins ==
    ctOut.status = "returned" =>
        \A p \in DOMAIN ctOut.rows :
            MatchingItems(p) # {} =>
                ctOut.rows[p].derived_category =
                    ctIn.keywords_dict[CHOOSE k \in MatchingItems(p) :
                                          \A o \in MatchingItems(p) : o <= k].category

\* {"Food": ["restaurant"], "Fast Food": ["restaurant", "burger"]} on
\* "Burger Restaurant" gives "Fast Food"
C18_Witness ==
    /\ ctOut.status = "returned"
    /\ Len(ctIn.keywords_dict) = 2
    /\ ctIn.keywords_dict[1].category = "Food"
    /\ ctIn.keywords_dict[2].category = "Fast Food"
    /\ ctIn.frame.rows[1].description = T_Burger_Restaurant
    /\ MatchingItems(1) = {1, 2}
    /\ ctOut.rows[1].derived_category = "Fast Food"

\* the keyword occurs in the text as a substring, letter case ignored on both sides
ContainsIgnoringCase(txt, keyword) ==
    \E i \in 1..(Len(txt) + 1) :
        /\ i + Len(keyword) - 1 <= Len(txt)
        /\ \A k \in 1..Len(keyword) : LowerChar(keyword[k]) = LowerChar(txt[i + k - 1])

\* the text contains one of the keywords of the dict's item k
StatedMatch(txt, k) ==
    \E j \in DOMAIN ctIn.keywords_dict[k].keywords :
        ContainsIgnoringCase(txt, ctIn.keywords_dict[k].keywords[j])

\* C19 (as claimed): a record whose text contains none of the keywords of
\* any category keeps "Uncategorized"; a category with an empty keyword
\* list matches no record.
C19_NoMatchStaysUncategorized ==
    ctOut.status = "returned" =>
        \A p \in DOMAIN ctOut.rows :
            (\A k \in DOMAIN ctIn.keywords_dict : ~StatedMatch(ctIn.frame.rows[p].description, k))
            => ctOut.rows[p].derived_category = "Uncategorized"

\* C20 (as claimed): matching ignores letter case on both sides: a record
\* whose text contains a keyword of the last category of the dict, whatever
\* the case of the keyword's letters, gets that category.
C20_CaseInsensitive ==
    (ctOut.status = "returned" /\ ctIn.keywords_dict # <<>>) =>
        \A p \in DOMAIN ctOut.rows :
            StatedMatch(ctIn.frame.rows[p].description, Len(ctIn.keywords_dict))
            => ctOut.rows[p].derived_category =
                   ctIn.keywords_dict[Len(ctIn.keywords_dict)].category

\* C21: no call of extract_time_features, calculate_purchase_frequency,
\* identify_recurring_purchases or categorize_text, returning or raising,
\* changes the frame or the arguments the caller passed in.
C21_InputUntouched ==
    [][df' = df /\ cfg' = cfg /\ fqIn' = fqIn /\ tfIn' = tfIn /\ ctIn' = ctIn]_vars

\* the detector has returned a flag that differs from the input's, and the
\* input has kept its own
C21_Witness ==
    /\ out.status = "returned"
    /\ Len(df.rows) = Len(out.rows)
    /\ \E p \in DOMAIN df.rows : df.rows[p].is_recurring /\ ~out.rows[p].is_recurring
    /\ \E p \in DOMAIN df.rows : ~df.rows[p].is_recurring /\ out.rows[p].is_recurring

\* C22 (as claimed): create_purchase with a category_id that no category
\* has, or that is a category of another user, is answered 400 "Invalid
\* category" and stores nothing.
C22_InvalidCategoryRejected ==
    (/\ lastCall.op = "create_purchase"
     /\ lastCall.category_id # <<>>
     /\ \/ lastCall.category_id[1] \notin {StoredCategories[c].id : c \in DOMAIN StoredCategories}
        \/ \E c \in DOMAIN StoredCategories :
              /\ StoredCategories[c].id = lastCall.category_id[1]
              /\ StoredCategories[c].user_id # lastCall.user)
    => /\ resp.status_code = 400
       /\ resp.detail = "Invalid category"
       /\ store = lastCall.before

\* C23 (as claimed): get_purchases returns only the caller's purchases
\* and, with a category_id filter, only purchases of that category; a
\* purchase is stored with the user_id of the caller that created it, and
\* no call changes a purchase already stored.
C23_OwnPurchasesOnly ==
    /\ lastCall.op = "get_purchases" =>
          /\ store = lastCall.before
          /\ \A b \in DOMAIN resp.body :
                /\ resp.body[b].user_id = lastCall.user
                /\ lastCall.category_id # <<>> =>
                      resp.body[b].category_id = lastCall.category_id
    /\ (lastCall.op = "create_purchase" /\ resp.status_code = 200) =>
          /\ Len(store) = Len(lastCall.before) + 1
          /\ SubSeq(store, 1, Len(lastCall.before)) = lastCall.before
          /\ store[Len(store)].user_id = lastCall.user
    /\ (lastCall.op = "create_purchase" /\ resp.status_code # 200) =>
          store = lastCall.before

\* the caller's frame with its records in the order f
Permuted(frame, f) ==
    [columns |-> frame.columns, rows |-> [p \in DOMAIN frame.rows |-> frame.rows[f[p]]]]

\* C24 (as claimed): on a frame with all its columns the detector returns
\* whatever the order of the records, every surviving group is judged on the
\* gaps between its timestamps sorted ascending, and the same records in
\* any other order get the same is_recurring values.
C24_OrderIndependent ==
    (out.status # "not called" /\ df.columns = AllColumns /\ cfg.min_occurrences >= 2) =>
        /\ out.status = "returned"
        /\ \A p \in DOMAIN out.rows :
              Cardinality(GroupAt(out.rows, p)) >= cfg.min_occurrences =>
                  (out.rows[p].is_recurring <=> StatedTest(out.rows, p))
        /\ \A f \in Arrangements(Len(df.rows)) :
              LET other == Detect(Permuted(df, f))
              IN  /\ other.status = "returned"
                  /\ \A p \in DOMAIN other.rows :
                        other.rows[p].is_recurring = out.rows[f[p]].is_recurring

\* the records the detector may compare with the record at position p:
\* same normalised description and, when the call names a user column that
\* the frame has, same user
Comparable(rows, p) ==
    {q \in DOMAIN rows :
        /\ StatedKey(rows[q].description) = StatedKey(rows[p].description)
        /\ (cfg.user_id_column = "user_id" /\ "user_id" \in df.columns)
              => rows[q].user_id = rows[p].user_id}

\* C25: with a user column, records of different users are never pooled:
\* every group the detector evaluates holds the records of one user and one
\* normalised description, all of them, and a record is flagged only if
\* that user has min_occurrences of them; without the column (None, or not
\* in the frame) the group is all records of that normalised description.
C25_KeysNotPooled ==
    out.status = "returned" =>
        /\ \A g \in DOMAIN out.groups :
              \A i \in DOMAIN out.groups[g].idx :
                  Range(out.groups[g].idx) = Comparable(df.rows, out.groups[g].idx[i])
        /\ \A p \in DOMAIN out.rows :
              /\ out.rows[p].is_recurring =>
                    Cardinality(Comparable(df.rows, p)) >= cfg.min_occurrences
              /\ Cardinality(Comparable(df.rows, p)) >= cfg.min_occurrences =>
                    \E g \in DOMAIN out.groups : p \in Range(out.groups[g].idx)

\* one "netflix" record of user 1 and one of user 2 with the same amount:
\* together they would reach min_occurrences = 2, apart neither is flagged
C25_Witness ==
    /\ out.status = "returned"
    /\ cfg.min_occurrences = 2
    /\ cfg.user_id_column = "user_id"
    /\ df.columns = AllColumns
    /\ Len(df.rows) = 2
    /\ df.rows[1].user_id # df.rows[2].user_id
    /\ StatedKey(df.rows[1].description) = StatedKey(df.rows[2].description)
    /\ df.rows[1].amount = df.rows[2].amount
    /\ out.groups = <<>>
    /\ \A p \in 1..2 : ~out.rows[p].is_recurring

\* the description has no letter: it is empty or made of whitespace,
\* digits and punctuation only
NoLetter(description) ==
    \A i \in DOMAIN description :
        ~(description[i] \in 65..90 \/ description[i] \in 97..122)

\* the records without a letter that may be compared with the one at p
BlankGroup(rows, p) == {q \in Comparable(rows, p) : NoLetter(rows[q].description)}

\* C26: the records whose description has no letter form one group per
\* grouping key, under the empty key: when there are min_occurrences of
\* them the detector evaluates exactly that group, flags its members when
\* it passes both tests and only then, and below the floor flags none; for
\* a frame that is one such group in date order the verdict is the stated
\* test on its amounts and day gaps.
C26_EmptyKeyIsOrdinary ==
    out.status = "returned" =>
        \A p \in DOMAIN df.rows :
            NoLetter(df.rows[p].description) =>
                /\ Comparable(df.rows, p) = BlankGroup(df.rows, p)
                /\ Cardinality(BlankGroup(df.rows, p)) < cfg.min_occurrences =>
                      ~out.rows[p].is_recurring
                /\ Cardinality(BlankGroup(df.rows, p)) >= cfg.min_occurrences =>
                      \E g \in DOMAIN out.groups :
                          /\ out.groups[g].key[Len(out.groups[g].key)] = <<>>
                          /\ Range(out.groups[g].idx) = BlankGroup(df.rows, p)
                          /\ out.rows[p].is_recurring <=> out.groups[g].passes
                /\ (/\ BlankGroup(df.rows, p) = DOMAIN df.rows
                    /\ Len(df.rows) >= cfg.min_occurrences
                    /\ \A q \in 1..(Len(df.rows) - 1) : df.rows[q].date <= df.rows[q + 1].date)
                   => (out.rows[p].is_recurring <=> StatedTest(out.rows, p))

\* "", "   " and "123-456!" of one user, same amount, thirty days apart, all flagged
C26_Witness ==
    /\ out.status = "returned"
    /\ cfg.min_occurrences = 3
    /\ Len(df.rows) = 3
    /\ df.rows[1].description = D_Empty
    /\ df.rows[2].description = D_Spaces
    /\ df.rows[3].description = D_Number
    /\ \A p \in 1..3 : out.rows[p].is_recurring

\* C27: the returned frame has the input's records, as many and in the
\* same order, each with its id, user, description, amount and date as
\* given and a boolean is_recurring; its columns are the input's and
\* is_recurring, without simple_desc and occurrences.
C27_SameRecords ==
    out.status = "returned" =>
        /\ Len(out.rows) = Len(df.rows)
        /\ out.columns = df.columns \cup {"is_recurring"}
        /\ \A p \in DOMAIN out.rows :
              /\ DOMAIN out.rows[p] =
                    {"id", "user_id", "description", "amount", "date", "is_recurring"}
              /\ out.rows[p].id = df.rows[p].id
              /\ out.rows[p].user_id = df.rows[p].user_id
              /\ out.rows[p].description = df.rows[p].description
              /\ out.rows[p].amount = df.rows[p].amount
              /\ out.rows[p].date = df.rows[p].date
              /\ out.rows[p].is_recurring \in BOOLEAN

\* three records not in date order: the first two flagged, the third, of
\* no surviving group and earlier than the second, kept in its place
C27_Witness ==
    /\ out.status = "returned"
    /\ Len(df.rows) = 3
    /\ out.rows[1].is_recurring
    /\ out.rows[2].is_recurring
    /\ ~out.rows[3].is_recurring
    /\ \A g \in DOMAIN out.groups : 3 \notin Range(out.groups[g].idx)
    /\ df.rows[3].date < df.rows[2].date

\* population standard deviation of the amounts <= max_amount_variance *
\* |mean|, both sides squared and cleared of their denominators:
\* n * sum of squares - (sum)^2 <= (Num / Den)^2 * (sum)^2
SmallRelativeDispersion(amounts) ==
    LET n  == Len(amounts)
        sm == SeqSum(amounts)
        sq == SeqSumSq(amounts)
    IN  MaxAmountVarianceDen * MaxAmountVarianceDen * (n * sq - sm * sm)
            <= MaxAmountVarianceNum * MaxAmountVarianceNum * sm * sm

\* C28 (as claimed): a record is flagged only if the standard deviation of
\* its group's amounts is at most max_amount_variance times the magnitude
\* of their mean, for negative means as for positive ones.
C28_DispersionRelativeToMagnitude ==
    out.status = "returned" =>
        \A p \in DOMAIN out.rows :
            out.rows[p].is_recurring => SmallRelativeDispersion(GroupAmounts(out.rows, p))

\* C29: when import_from_csv returns, every data row is accounted for
\* once: it is the row of exactly one returned purchase or of exactly one
\* error; successful_imports is the number of purchases, failed_imports the
\* number of errors, and together they are the number of data rows; the
\* purchases and the errors are in row order, so a row after a failing one
\* is still imported.
C29_EveryRowOnce ==
    csvOut.status = "returned" =>
        LET n == Len(csvIn.file.rows)
            imported == {csvOut.purchases[k].row : k \in DOMAIN csvOut.purchases}
            failed   == {csvOut.errors[k].row : k \in DOMAIN csvOut.errors}
        IN  /\ csvOut.successful_imports + csvOut.failed_imports = n
            /\ csvOut.successful_imports = Len(csvOut.purchases)
            /\ csvOut.failed_imports = Len(csvOut.errors)
            /\ imported \cup failed = 0..(n - 1)
            /\ imported \cap failed = {}
            /\ Cardinality(imported) = Len(csvOut.purchases)
            /\ Cardinality(failed) = Len(csvOut.errors)
            /\ \A k \in DOMAIN csvIn.file.rows :
                  (k - 1) \in imported <=>
                      /\ csvIn.mapping.amount_in_file
                      /\ csvIn.file.rows[k].amount # "abc"
                      /\ csvIn.file.rows[k].date = "2024-03-02"
                      /\ csvIn.mapping.payment_method_mapped =>
                            csvIn.file.rows[k].payment_method # "NaN"

\* a row with an unreadable amount followed by a good row: one error, one purchase
C29_Witness ==
    /\ csvOut.status = "returned"
    /\ Len(csvIn.file.rows) = 2
    /\ csvIn.file.rows[1].amount = "abc"
    /\ csvOut.failed_imports = 1
    /\ csvOut.successful_imports = 1
    /\ Len(csvOut.purchases) = 1
    /\ csvOut.purchases[1].row = 1
    /\ Len(csvOut.errors) = 1
    /\ csvOut.errors[1].row = 0

\* C30 (as claimed): after save_dataframe_to_purchases for user U, every
\* purchase that was stored for another user is as it was, whatever ids and
\* update_existing the call was given, and every purchase the call has
\* added to the table has user_id = U.
C30_OtherUsersUntouched ==
    lastCall.op = "save_dataframe_to_purchases" =>
        /\ Len(store) >= Len(lastCall.before)
        /\ \A k \in DOMAIN lastCall.before :
              lastCall.before[k].user_id # lastCall.user => store[k] = lastCall.before[k]
        /\ \A k \in (Len(lastCall.before) + 1)..Len(store) :
              store[k].user_id = lastCall.user

=============================================================================
